---- MODULE Spec2Model ----
(***************************************************************************)
(* SalesforceConnector (glue_common_utils/salesforce_connector.py): the    *)
(* three extraction strategies (query_all, query + query_more, LIMIT /     *)
(* OFFSET batches), the count rewrite, and the Salesforce session they     *)
(* drive.  The session (simple_salesforce) is the environment: each of its *)
(* calls returns a page the model draws from bounded sets, or fails.       *)
(***************************************************************************)
EXTENDS Integers, Sequences, FiniteSets, TLC

\* ------------------------------------------------------------- bounds

\* Most records the session serves one query_data call, over all its pages.
MaxRecs == 3
\* Largest batch_size below the default.
MaxBatch == 2
\* Most pages one cursor-paginated query is served.
MaxPages == 3
\* Largest totalSize a count query reports for a small batch_size.
MaxTotal == 4

\* query_in_batches(soql_query, batch_size=2000, ...)
DefaultBatchSize == 2000
\* The total of the documented example: 5000 records in batches of 2000.
LargeTotal == 2 * DefaultBatchSize + DefaultBatchSize \div 2

\* ------------------------------------------------------------- strings

\* str is a TLA+ string; s[i:j] is SubSeq(s, i + 1, j).
Min(a, b) == IF a < b THEN a ELSE b

Char(s, i) == SubSeq(s, i, i)

\* s[i:] and s[:i] of Python; a negative i of s[i:] counts from the end
SliceFrom(s, i) ==
    IF i < 0 THEN SubSeq(s, (IF Len(s) + i < 0 THEN 0 ELSE Len(s) + i) + 1, Len(s))
    ELSE SubSeq(s, Min(i, Len(s)) + 1, Len(s))
SliceTo(s, i) == SubSeq(s, 1, Min(i, Len(s)))

LowerCase == "abcdefghijklmnopqrstuvwxyz"
UpperCase == "ABCDEFGHIJKLMNOPQRSTUVWXYZ"

\* U+00DF, LATIN SMALL LETTER SHARP S, written "$" to keep the module ASCII.
\* It is the one character of the model whose upper case is longer than
\* itself: Python's "ß".upper() is "SS".
SharpS == "$"

\* str.upper() on one character
UpperChar(c) ==
    IF c = SharpS THEN "SS"
    ELSE IF \E k \in 1..26 : Char(LowerCase, k) = c
         THEN Char(UpperCase, CHOOSE k \in 1..26 : Char(LowerCase, k) = c)
         ELSE c

\* str.upper()
RECURSIVE Upper(_)
Upper(s) == IF Len(s) = 0 THEN "" ELSE UpperChar(Char(s, 1)) \o Upper(SliceFrom(s, 1))

\* str.find(sub): the lowest 0-based index where sub occurs in s, or -1
Find(s, sub) ==
    LET hits == {i \in 0..(Len(s) - Len(sub)) : SubSeq(s, i + 1, i + Len(sub)) = sub}
    IN IF hits = {} THEN -1 ELSE CHOOSE i \in hits : \A j \in hits : i <= j

\* sub in s
Contains(s, sub) == Find(s, sub) # -1

Digits == "0123456789"

\* str(n) of a non-negative int, as an f-string formats it
RECURSIVE Str(_)
Str(n) == IF n < 10 THEN Char(Digits, n + 1)
          ELSE Str(n \div 10) \o Char(Digits, (n % 10) + 1)

\* ------------------------------------------------------------- queries

\* The clauses query_count removes, in the order its loop tries them.
Clauses == <<"ORDER BY", "LIMIT", "OFFSET", "GROUP BY", "HAVING">>

\* query_count, the loop over the clauses: count_query cut at clause k's
\* first index in count_query.upper(), then at clause k+1's, ...
RECURSIVE RemoveClauses(_, _)
RemoveClauses(count_query, k) ==
    IF k > Len(Clauses) THEN count_query
    ELSE IF Contains(Upper(count_query), Clauses[k])
         THEN RemoveClauses(SliceTo(count_query, Find(Upper(count_query), Clauses[k])), k + 1)
         ELSE RemoveClauses(count_query, k + 1)

\* A guard that looks for SELECT alone
IsSelect_NoFromCheck(soql_query) == Contains(Upper(soql_query), "SELECT")

\* query_count's guard: the query looks like a SELECT ... FROM
\* if 'SELECT' in soql_query.upper() and 'FROM' in soql_query.upper():
IsSelect(soql_query) ==
    Contains(Upper(soql_query), "SELECT") /\ Contains(Upper(soql_query), "FROM")

\* query_count: the count query sent for soql_query
CountQuery(soql_query) ==
    LET from_index == Find(Upper(soql_query), "FROM")
    IN RemoveClauses("SELECT COUNT() " \o SliceFrom(soql_query, from_index), 1)

\* query_in_batches: the query of the batch at offset
BatchQuery(soql_query, size, offset) ==
    IF Contains(Upper(soql_query), "ORDER BY")
    THEN LET order_by_index == Find(Upper(soql_query), "ORDER BY")
         IN SliceTo(soql_query, order_by_index) \o " LIMIT " \o Str(size)
            \o " OFFSET " \o Str(offset) \o " " \o SliceFrom(soql_query, order_by_index)
    ELSE soql_query \o " LIMIT " \o Str(size) \o " OFFSET " \o Str(offset)

\* The queries passed to query_count and query_in_batches, which rewrite them.
Queries ==
    { "select id from Account order by name limit 10",
      "select id from Account",
      "select id from Account where Name = 'Stra$e' order by Name",
      "from Account",
      "select id",
      "id" }

\* The queries passed to query_data, which sends them on as they are.
DataQueries == {"select id from Account order by name limit 10", "select id from Account"}

\* ------------------------------------------------------------- records

\* A record of a page as Salesforce returns it: with its attributes key, or
\* (a record already stripped, a test double's) without.
Record(id, with_attributes) ==
    IF with_attributes THEN [Id |-> id, attributes |-> "sObject"] ELSE [Id |-> id]

\* record.pop('attributes', None)
PopAttributes(record) == [k \in (DOMAIN record) \ {"attributes"} |-> record[k]]

\* The loop without its pop: every record is appended as it came.
StripAttributes_NoPop(records) == records

RECURSIVE StripAttributes_OnlyTagged(_)
\* The append made to depend on the pop: a record that came without the
\* attributes key is left out.
StripAttributes_OnlyTagged(records) ==
    IF records = <<>> THEN <<>>
    ELSE (IF "attributes" \in DOMAIN Head(records)
          THEN <<PopAttributes(Head(records))>> ELSE <<>>)
         \o StripAttributes_OnlyTagged(Tail(records))

\* for record in result['records']: record.pop('attributes', None);
\* records.append(record)
StripAttributes(records) == [i \in 1..Len(records) |-> PopAttributes(records[i])]

\* The batch put in the place of what was gathered before it
Extend_Replace(records, batch_records) == batch_records

\* all_records.extend(batch_records)
Extend(records, batch_records) == records \o batch_records

\* total_batches = (total_records + batch_size - 1) // batch_size
TotalBatches(total, size) == (total + size - 1) \div size

\* The offset taken from the 1-based batch number
Offset_OneBased(num, size) == (num + 1) * size

\* offset = batch_num * batch_size
Offset(num, size) == num * size

\* batch_num never incremented
NextBatchNum_Stuck(num) == num

\* batch_num += 1
NextBatchNum(num) == num + 1

\* No short-circuit on an empty count
NoRecords_Never(total) == FALSE

\* if total_records == 0: return []
NoRecords(total) == total = 0

\* No break on a short batch
IsLastBatch_Never(records, size) == FALSE

\* if len(batch_records) < batch_size: break
IsLastBatch(records, size) == Len(records) < size

\* The callback called outside any try block
CallbackFailureRaises_NoTry == TRUE

\* try: batch_callback(...) except Exception: logger.warning(...)
\* Whether an exception of the callback leaves the extraction.
CallbackFailureRaises == FALSE

\* query_more called outside any try block
QueryMoreFailureRaises_NoTry == TRUE

\* try: result = self.sf.query_more(...) except Exception: ...; break
\* Whether a failed query_more leaves _query_with_pagination as an exception.
QueryMoreFailureRaises == FALSE

\* The batch query wrapped like query_more: log, break, return what there is
BatchFailureRaises_Tolerant == FALSE

\* result = self.sf.query_all(batch_query), in no try block
\* Whether a failed batch query leaves query_in_batches as an exception.
BatchFailureRaises == TRUE

\* The total handed to the callback read from the page at hand
CursorTotal_PerPage(total, page) == page.totalSize

\* batch_callback(batch_records, batch_num, total_size): total_size is the
\* totalSize of the first page, set once before the loop
CursorTotal(total, page) == total

\* The callback handed the loop index itself
BatchNumber_ZeroBased(num) == num

\* batch_callback(batch_records, batch_num + 1, total_batches)
BatchNumber(num) == num + 1

\* The loop never left on a done page
Done_Never(page) == FALSE

\* if result.get('done', True): break
Done(page) == page.done

\* The dispatch with its branches the wrong way round
Dispatch_Swapped(pag) == IF pag THEN "query_all" ELSE "query"

\* if not paginate: return self._query_all_data(...)
\* else: return self._query_with_pagination(...)
Dispatch(pag) == IF pag THEN "query" ELSE "query_all"

\* The failure wrapped in an exception of the connector's own
Reraised_Wrapped(e) == "ExtractionError"

\* except Exception as e: logger.error(...); raise
\* The exception that leaves query_data or query_count: the one caught.
Reraised(e) == e

\* ------------------------------------------------------------- session

NoSession == 0
Session == 1

\* connect() called whether or not a session is cached
NeedsConnect_Always(session) == TRUE

\* if not self.sf: self.connect()
NeedsConnect(session) == session = NoSession

\* self.sf = Salesforce(**connection_params): a session that was not there before
NewSession(session) == session + 1

\* connect() logging the failure without raising it
ConnectFailureRaises_Swallowed == FALSE

\* connect(): except Exception as e: logger.error(e); raise
ConnectFailureRaises == TRUE

\* The page of a failed call, and the value of `result` before any call.
NoPage == [records |-> <<>>, totalSize |-> 0, done |-> TRUE, nextRecordsUrl |-> ""]

\* Which records of a page of n carry the attributes key: all of them (what
\* Salesforce sends), none, or every other one; all of them in a large page.
AttrFlags(n) ==
    IF n < DefaultBatchSize \div 2
    THEN {[i \in 1..n |-> TRUE], [i \in 1..n |-> FALSE], [i \in 1..n |-> i % 2 = 0]}
    ELSE {[i \in 1..n |-> TRUE]}

\* A page of n records, numbered after the `base` records served before it.
Page(base, n, flags, total, done) ==
    [records |-> [i \in 1..n |-> Record(base + i, flags[i])],
     totalSize |-> total,
     done |-> done,
     nextRecordsUrl |-> IF done THEN "" ELSE "/query/01g-" \o Str(base + n)]

\* The lengths of the page a batch query with LIMIT size gets.
PageLens(size) == IF size <= MaxBatch THEN 0..size ELSE {0, size \div 2, size}

\* The totals a count query reports.
CountTotals(size) == IF size <= MaxBatch THEN 0..MaxTotal ELSE {0, LargeTotal}

\* batch_size arguments
BatchSizes == (0..MaxBatch) \cup {DefaultBatchSize}

\* totalSize of the page of query and query_all
PageTotals == {0, MaxTotal}

\* totalSize of the pages of query_more, which the code never reads
LaterPageTotals == {MaxTotal}

\* ------------------------------------------------------------- state

VARIABLES
    sf,             \* self.sf
    pc,             \* where the call in progress stands; "idle" between calls
    op,             \* the caller-facing method called last
    soql_query,     \* its arguments
    paginate,
    batch_callback, \* whether a callback was passed
    batch_size,
    result,         \* the local `result`: the page of the last session call
    all_records,
    batch_num,      \* _query_with_pagination: batches started; query_in_batches: the loop index
    total_size,     \* total_size / total_records / the count query_count returns
    total_batches,
    outcome,        \* of the last call: "none", "running", "returned", "raised"
    returned,       \* the list it returned
    exc,            \* the exception it raised
    trace           \* what the call did, in order: session calls and callback calls

vars == <<sf, pc, op, soql_query, paginate, batch_callback, batch_size, result,
          all_records, batch_num, total_size, total_batches, outcome, returned,
          exc, trace>>

\* One entry of trace.  kind: "connect", "query", "query_all", "query_more" (the
\* session calls) or "callback"; arg: the query or URL sent; ok: the call
\* returned (FALSE: it raised); page: the page it returned, or for a callback
\* the batch_records it was handed; num, total: a callback's 2nd and 3rd argument;
\* session: self.sf as the call was made.
Event(kind, arg, ok, page, num, total) ==
    [kind |-> kind, arg |-> arg, ok |-> ok, page |-> page, num |-> num, total |-> total,
     session |-> sf]

SessionCall(kind, arg, ok, page) == Event(kind, arg, ok, page, 0, 0)

CallbackCall(records, num, total, threw) ==
    Event("callback", "", ~threw, [NoPage EXCEPT !.records = records], num, total)

Init ==
    /\ sf = NoSession
    /\ pc = "idle"
    /\ op = "none"
    /\ soql_query = ""
    /\ paginate = TRUE
    /\ batch_callback = FALSE
    /\ batch_size = DefaultBatchSize
    /\ result = NoPage
    /\ all_records = <<>>
    /\ batch_num = 0
    /\ total_size = 0
    /\ total_batches = 0
    /\ outcome = "none"
    /\ returned = <<>>
    /\ exc = "none"
    /\ trace = <<>>

\* What every caller-facing method starts from: its own locals, nothing of
\* the call before it but self.sf.
Enter(method, query, pag, size, callback) ==
    /\ pc = "idle"
    /\ op' = method
    /\ soql_query' = query
    /\ paginate' = pag
    /\ batch_size' = size
    /\ batch_callback' = callback
    /\ result' = NoPage
    /\ all_records' = <<>>
    /\ batch_num' = 0
    /\ total_size' = 0
    /\ total_batches' = 0
    /\ returned' = <<>>

\* if not self.sf: self.connect()
\* connect() sets self.sf, or logs and re-raises what SecretManager or
\* Salesforce(...) raised.  `then` is where the method goes on.
Connect(then) ==
    IF ~NeedsConnect(sf)
    THEN /\ pc' = then
         /\ outcome' = "running"
         /\ exc' = "none"
         /\ trace' = <<>>
         /\ UNCHANGED sf
    ELSE \E ok \in BOOLEAN :
            LET goes_on == ok \/ ~ConnectFailureRaises
            IN /\ sf' = IF ok THEN NewSession(sf) ELSE sf
               /\ pc' = IF goes_on THEN then ELSE "idle"
               /\ outcome' = IF goes_on THEN "running" ELSE "raised"
               /\ exc' = IF goes_on THEN "none" ELSE "SalesforceAuthenticationFailed"
               /\ trace' = <<SessionCall("connect", "", ok, NoPage)>>

\* The call ends: return value
Return(records) ==
    /\ pc' = "idle"
    /\ outcome' = "returned"
    /\ returned' = records
    /\ exc' = "none"

\* The call ends: except Exception as e: logger.error(...); raise
Raise(e) ==
    /\ pc' = "idle"
    /\ outcome' = "raised"
    /\ returned' = <<>>
    /\ exc' = e

\* query_data(soql_query, paginate=True, batch_callback=None), to its dispatch
QueryData ==
    \E query \in DataQueries, pag \in BOOLEAN, callback \in BOOLEAN :
        /\ Enter("query_data", query, pag, DefaultBatchSize, callback)
        /\ Connect(Dispatch(pag))

\* _query_all_data
QueryAllData ==
    /\ pc = "query_all"
    /\ \/ \E n \in 0..MaxRecs, total \in PageTotals :
            \E flags \in AttrFlags(n) :
                LET page == Page(0, n, flags, total, TRUE)
                IN /\ result' = page
                   /\ trace' = Append(trace, SessionCall("query_all", soql_query, TRUE, page))
                   /\ Return(StripAttributes(page.records))
       \/ /\ trace' = Append(trace, SessionCall("query_all", soql_query, FALSE, NoPage))
          /\ Raise(Reraised("SalesforceError"))
          /\ UNCHANGED result
    /\ UNCHANGED <<sf, op, soql_query, paginate, batch_callback, batch_size,
                   all_records, batch_num, total_size, total_batches>>

\* The callback's turn in a loop body: none passed, or it returns, or it
\* raises.  if batch_callback: try: batch_callback(...) except Exception: ...
CallbackOutcomes == IF batch_callback THEN {"returned", "raised"} ELSE {"none"}

AfterCallback(records, num, total, callback) ==
    IF callback = "none" THEN trace
    ELSE Append(trace, CallbackCall(records, num, total, callback = "raised"))

\* _query_with_pagination, up to the first page: result = self.sf.query(soql_query)
FirstPage ==
    /\ pc = "query"
    /\ \/ \E n \in 0..MaxRecs, total \in PageTotals,
             done \in (IF MaxPages <= 1 THEN {TRUE} ELSE BOOLEAN) :
            \E flags \in AttrFlags(n) :
                LET page == Page(0, n, flags, total, done)
                IN /\ result' = page
                   /\ total_size' = page.totalSize
                   /\ trace' = Append(trace, SessionCall("query", soql_query, TRUE, page))
                   /\ pc' = "page_loop"
                   /\ UNCHANGED <<outcome, returned, exc>>
       \/ /\ trace' = Append(trace, SessionCall("query", soql_query, FALSE, NoPage))
          /\ Raise(Reraised("SalesforceError"))
          /\ UNCHANGED <<result, total_size>>
    /\ UNCHANGED <<sf, op, soql_query, paginate, batch_callback, batch_size,
                   all_records, batch_num, total_batches>>

\* _query_with_pagination, one pass of the loop body up to `if result.get('done')`
PageLoop ==
    /\ pc = "page_loop"
    /\ LET num == NextBatchNum(batch_num)
           batch_records == StripAttributes(result.records)
           records == Extend(all_records, batch_records)
       IN /\ batch_num' = num
          /\ all_records' = records
          /\ \E callback \in CallbackOutcomes :
                /\ trace' = AfterCallback(batch_records, num,
                                          CursorTotal(total_size, result), callback)
                /\ IF callback = "raised" /\ CallbackFailureRaises
                   THEN Raise("CallbackError")
                   ELSE IF Done(result)
                        THEN Return(records)
                        ELSE /\ pc' = "query_more"
                             /\ UNCHANGED <<outcome, returned, exc>>
    /\ UNCHANGED <<sf, op, soql_query, paginate, batch_callback, batch_size,
                   result, total_size, total_batches>>

\* _query_with_pagination, the end of the loop body:
\* result = self.sf.query_more(result['nextRecordsUrl'], identifier_is_url=True)
QueryMore ==
    /\ pc = "query_more"
    /\ \/ \E n \in 0..(MaxRecs - Len(all_records)), total \in LaterPageTotals,
             done \in (IF batch_num + 1 >= MaxPages THEN {TRUE} ELSE BOOLEAN) :
            \E flags \in AttrFlags(n) :
                LET page == Page(Len(all_records), n, flags, total, done)
                IN /\ result' = page
                   /\ trace' = Append(trace,
                          SessionCall("query_more", result.nextRecordsUrl, TRUE, page))
                   /\ pc' = "page_loop"
                   /\ UNCHANGED <<outcome, returned, exc>>
       \/ /\ trace' = Append(trace,
                 SessionCall("query_more", result.nextRecordsUrl, FALSE, NoPage))
          /\ IF QueryMoreFailureRaises
             THEN Raise("SalesforceError")
             ELSE Return(all_records)
          /\ UNCHANGED result
    /\ UNCHANGED <<sf, op, soql_query, paginate, batch_callback, batch_size,
                   all_records, batch_num, total_size, total_batches>>

\* query_count(soql_query), to its try block
QueryCountCall ==
    \E query \in Queries :
        /\ Enter("query_count", query, TRUE, DefaultBatchSize, FALSE)
        /\ Connect("count")

\* The page of a count query: no records, the count as its totalSize.
CountPage(total) == [NoPage EXCEPT !.totalSize = total]

\* query_count, its try block
QueryCount ==
    /\ pc = "count"
    /\ IF IsSelect(soql_query)
       THEN \/ \E total \in 0..MaxTotal :
                  /\ trace' = Append(trace,
                         SessionCall("query", CountQuery(soql_query), TRUE, CountPage(total)))
                  /\ result' = CountPage(total)
                  /\ total_size' = total
                  /\ Return(<<>>)
            \/ /\ trace' = Append(trace,
                      SessionCall("query", CountQuery(soql_query), FALSE, NoPage))
               /\ Raise(Reraised("SalesforceError"))
               /\ UNCHANGED <<result, total_size>>
       ELSE /\ Raise(Reraised("ValueError"))
            /\ UNCHANGED <<trace, result, total_size>>
    /\ UNCHANGED <<sf, op, soql_query, paginate, batch_callback, batch_size,
                   all_records, batch_num, total_batches>>

\* query_in_batches(soql_query, batch_size=2000, batch_callback=None), to
\* total_records = self.query_count(soql_query)
QueryInBatches ==
    \E query \in Queries, size \in BatchSizes, callback \in BOOLEAN :
        /\ Enter("query_in_batches", query, TRUE, size, callback)
        /\ Connect("batches_count")

\* query_in_batches, from total_records = self.query_count(soql_query) to the loop
BatchesCount ==
    /\ pc = "batches_count"
    /\ IF IsSelect(soql_query)
       THEN \/ \E total \in CountTotals(batch_size) :
                  /\ trace' = Append(trace,
                         SessionCall("query", CountQuery(soql_query), TRUE, CountPage(total)))
                  /\ result' = CountPage(total)
                  /\ total_size' = total
                  /\ IF NoRecords(total)
                     THEN Return(<<>>) /\ UNCHANGED total_batches
                     ELSE IF batch_size = 0
                          THEN Raise("ZeroDivisionError") /\ UNCHANGED total_batches
                          ELSE /\ total_batches' = TotalBatches(total, batch_size)
                               /\ IF TotalBatches(total, batch_size) <= 0
                                  THEN Return(<<>>)
                                  ELSE /\ pc' = "batch_query"
                                       /\ UNCHANGED <<outcome, returned, exc>>
            \/ /\ trace' = Append(trace,
                      SessionCall("query", CountQuery(soql_query), FALSE, NoPage))
               /\ Raise(Reraised("SalesforceError"))
               /\ UNCHANGED <<result, total_size, total_batches>>
       ELSE /\ Raise(Reraised("ValueError"))
            /\ UNCHANGED <<trace, result, total_size, total_batches>>
    /\ UNCHANGED <<sf, op, soql_query, paginate, batch_callback, batch_size,
                   all_records, batch_num>>

\* query_in_batches, the loop body to result = self.sf.query_all(batch_query)
BatchQueryAll ==
    /\ pc = "batch_query"
    /\ LET offset == Offset(batch_num, batch_size)
           batch_query == BatchQuery(soql_query, batch_size, offset)
       IN \/ \E n \in PageLens(batch_size) :
                \E flags \in AttrFlags(n) :
                    LET page == Page(Len(all_records), n, flags, n, TRUE)
                    IN /\ result' = page
                       /\ trace' = Append(trace, SessionCall("query_all", batch_query, TRUE, page))
                       /\ pc' = "batch_loop"
                       /\ UNCHANGED <<outcome, returned, exc>>
          \/ /\ trace' = Append(trace, SessionCall("query_all", batch_query, FALSE, NoPage))
             /\ IF BatchFailureRaises
                THEN Raise("SalesforceError")
                ELSE Return(all_records)
             /\ UNCHANGED result
    /\ UNCHANGED <<sf, op, soql_query, paginate, batch_callback, batch_size,
                   all_records, batch_num, total_size, total_batches>>

\* query_in_batches, the rest of the loop body and the step of its for loop
BatchLoop ==
    /\ pc = "batch_loop"
    /\ LET batch_records == StripAttributes(result.records)
           records == Extend(all_records, batch_records)
       IN /\ all_records' = records
          /\ \E callback \in CallbackOutcomes :
                /\ trace' = AfterCallback(batch_records, BatchNumber(batch_num),
                                          total_batches, callback)
                /\ IF callback = "raised" /\ CallbackFailureRaises
                   THEN Raise("CallbackError") /\ UNCHANGED batch_num
                   ELSE IF IsLastBatch(batch_records, batch_size)
                           \/ batch_num + 1 >= total_batches
                        THEN Return(records) /\ UNCHANGED batch_num
                        ELSE /\ batch_num' = batch_num + 1
                             /\ pc' = "batch_query"
                             /\ UNCHANGED <<outcome, returned, exc>>
    /\ UNCHANGED <<sf, op, soql_query, paginate, batch_callback, batch_size,
                   result, total_size, total_batches>>

Next ==
    \/ QueryData
    \/ QueryAllData
    \/ FirstPage
    \/ PageLoop
    \/ QueryMore
    \/ QueryCountCall
    \/ QueryCount
    \/ QueryInBatches
    \/ BatchesCount
    \/ BatchQueryAll
    \/ BatchLoop

Spec == Init /\ [][Next]_vars

\* The steps of _query_with_pagination
CursorStep ==
    \/ FirstPage
    \/ PageLoop
    \/ QueryMore

\* A cursor pagination that has been started runs on: the interpreter executes
\* the method's next statement, and every session call and callback call comes
\* back, with a value or an exception. The caller is free never to call again.
SpecFair == Spec /\ WF_vars(CursorStep)

\* ------------------------------------------------------------- properties

IsSessionCall(e) == e.kind \in {"query", "query_all", "query_more"}
IsCallback(e) == e.kind = "callback"
IsBatchQuery(e) == e.kind = "query_all"
IsServed(e) == IsSessionCall(e) /\ e.ok

\* The session's execute and continue calls of the call in progress, in order
SessionCalls == SelectSeq(trace, IsSessionCall)
\* The callback invocations of the call in progress, in order
Callbacks == SelectSeq(trace, IsCallback)
\* The calls that fetch records: all of them but the count query of query_in_batches
RecordCalls == IF op = "query_in_batches" THEN SelectSeq(trace, IsBatchQuery) ELSE SessionCalls
\* Those of them that returned a page
PagesServed == SelectSeq(RecordCalls, IsServed)

\* The records of the events' pages, one page after the other
RECURSIVE Records(_)
Records(events) ==
    IF events = <<>> THEN <<>> ELSE Head(events).page.records \o Records(Tail(events))

RECURSIVE SumLen(_)
SumLen(events) ==
    IF events = <<>> THEN 0 ELSE Len(Head(events).page.records) + SumLen(Tail(events))

\* Which records, in which order
Ids(records) == [i \in 1..Len(records) |-> records[i].Id]

HasAttributes(record) == "attributes" \in DOMAIN record

\* The last call of `method` has ended
Finished(method) == pc = "idle" /\ op = method /\ outcome \in {"returned", "raised"}

CursorPagination == op = "query_data" /\ paginate
OffsetBatching == op = "query_in_batches"

\* C1: in every strategy, no record of the returned list and no record handed
\* to the batch callback has the attributes key, whatever the pages held.
C1_NoAttributesInOutput ==
    /\ \A i \in 1..Len(returned) : ~HasAttributes(returned[i])
    /\ \A k \in 1..Len(Callbacks) :
          \A i \in 1..Len(Callbacks[k].page.records) :
              ~HasAttributes(Callbacks[k].page.records[i])

\* A call returned records, handed records to its callback, and the session
\* had served a record carrying the attributes key.
C1_Witness ==
    /\ outcome = "returned"
    /\ Len(returned) > 1
    /\ Len(Callbacks) > 0
    /\ \E i \in 1..Len(Records(PagesServed)) : HasAttributes(Records(PagesServed)[i])

\* C2: a cursor-paginated query whose session calls all succeed, N pages with
\* done false on all but the last, returns as many records as the N pages
\* hold together, and calls the callback once per page with batch numbers
\* 1, 2, ..., N in that order.
C2_CursorAllPages ==
    (Finished("query_data") /\ paginate /\ SessionCalls # <<>>
        /\ \A k \in 1..Len(SessionCalls) : SessionCalls[k].ok)
    => LET N == Len(SessionCalls)
       IN /\ \A k \in 1..N : SessionCalls[k].page.done <=> k = N
          /\ outcome = "returned"
          /\ Len(returned) = SumLen(SessionCalls)
          /\ batch_callback => /\ Len(Callbacks) = N
                               /\ \A k \in 1..N : Callbacks[k].num = k

\* Three pages, records on the last one, a callback passed.
C2_Witness ==
    /\ Finished("query_data") /\ paginate /\ batch_callback
    /\ Len(SessionCalls) = 3
    /\ \A k \in 1..3 : SessionCalls[k].ok
    /\ Len(SessionCalls[3].page.records) > 0
    /\ Len(returned) = MaxRecs

\* C3: when the query_more call for page k+1 fails, the cursor-paginated query
\* returns normally the records of pages 1..k in order; the failed call is the
\* last session call it makes and the only failed one.
C3_CursorEarlyStop ==
    (Finished("query_data") /\ paginate
        /\ \E k \in 1..Len(SessionCalls) :
              SessionCalls[k].kind = "query_more" /\ ~SessionCalls[k].ok)
    => /\ outcome = "returned"
       /\ Ids(returned) = Ids(Records(PagesServed))
       /\ Len(PagesServed) = Len(SessionCalls) - 1
       /\ ~SessionCalls[Len(SessionCalls)].ok
       /\ IsSessionCall(trace[Len(trace)])

\* The query_more for the third page failed after two pages with records.
C3_Witness ==
    /\ Finished("query_data") /\ paginate
    /\ Len(SessionCalls) = 3
    /\ ~SessionCalls[3].ok
    /\ Len(SessionCalls[1].page.records) > 0
    /\ Len(SessionCalls[2].page.records) > 0
    /\ outcome = "returned"

\* The least m with m * b >= a: ceil(a / b), for a >= 0 and b > 0
CeilDiv(a, b) == CHOOSE m \in 0..a : m * b >= a /\ (m = 0 \/ (m - 1) * b < a)

\* The query text carries this LIMIT and OFFSET, as whole numbers
HasLimitOffset(text, limit, offset) ==
    Contains(text \o " ", " LIMIT " \o Str(limit) \o " OFFSET " \o Str(offset) \o " ")

\* The queries of the batches, in order
BatchQueries == SelectSeq(trace, IsBatchQuery)

ThrewCallback == \E k \in 1..Len(Callbacks) : ~Callbacks[k].ok
NoFailedCall == \A k \in 1..Len(SessionCalls) : SessionCalls[k].ok

\* C4: a callback that raises on any of its invocations does not abort a
\* cursor-paginated or offset-batched extraction whose session calls succeed:
\* the call returns, with the records of every page, after the session calls
\* the pages alone determine (query, then query_more on each page's URL until
\* a page is done; batch queries until a short batch or the last batch), one
\* callback invocation per page.
C4_CallbackNeverAborts ==
    ((Finished("query_data") \/ Finished("query_in_batches"))
        /\ ThrewCallback /\ NoFailedCall)
    => LET N == Len(PagesServed)
       IN /\ outcome = "returned"
          /\ Ids(returned) = Ids(Records(PagesServed))
          /\ Len(Callbacks) = N
          /\ CursorPagination =>
                /\ SessionCalls[1].kind = "query" /\ SessionCalls[1].arg = soql_query
                /\ \A k \in 1..N : SessionCalls[k].page.done <=> k = N
                /\ \A k \in 2..N : /\ SessionCalls[k].kind = "query_more"
                                   /\ SessionCalls[k].arg = SessionCalls[k-1].page.nextRecordsUrl
          /\ OffsetBatching =>
                /\ \A k \in 1..(N-1) : Len(PagesServed[k].page.records) >= batch_size
                /\ \/ Len(PagesServed[N].page.records) < batch_size
                   \/ N = CeilDiv(total_size, batch_size)

\* An offset-batched extraction of two batches whose callback raised both times.
C4_Witness ==
    /\ Finished("query_in_batches")
    /\ Len(Callbacks) = 2
    /\ ~Callbacks[1].ok /\ ~Callbacks[2].ok
    /\ Len(returned) > 2
    /\ outcome = "returned"

\* C5: query_in_batches issues at most ceil(total_count / batch_size) batch
\* queries, the k-th with LIMIT batch_size and OFFSET (k-1) * batch_size; for a
\* count of 5000 and batch_size 2000, with batches of 2000, 2000 and 1000
\* records, exactly 3 batch queries, at offsets 0, 2000, 4000.
C5_BatchOffsets ==
    (OffsetBatching /\ batch_size > 0)
    => /\ Len(BatchQueries) <= CeilDiv(total_size, batch_size)
       /\ \A k \in 1..Len(BatchQueries) :
             HasLimitOffset(BatchQueries[k].arg, batch_size, (k - 1) * batch_size)
       /\ (/\ Finished("query_in_batches") /\ outcome = "returned"
           /\ batch_size = 2000 /\ total_size = 5000
           /\ Len(PagesServed) >= 3
           /\ Len(PagesServed[1].page.records) = 2000
           /\ Len(PagesServed[2].page.records) = 2000
           /\ Len(PagesServed[3].page.records) = 1000)
          => /\ Len(BatchQueries) = 3
             /\ Contains(BatchQueries[1].arg \o " ", " LIMIT 2000 OFFSET 0 ")
             /\ Contains(BatchQueries[2].arg \o " ", " LIMIT 2000 OFFSET 2000 ")
             /\ Contains(BatchQueries[3].arg \o " ", " LIMIT 2000 OFFSET 4000 ")

\* The documented example: 5000 records counted, fetched as 2000, 2000, 1000.
C5_Witness ==
    /\ Finished("query_in_batches") /\ outcome = "returned"
    /\ batch_size = 2000 /\ total_size = 5000
    /\ Len(BatchQueries) = 3
    /\ Len(returned) = 5000

\* C6: once a batch query has returned fewer than batch_size records, no other
\* batch query is issued, whatever total_batches is; the call returns with the
\* records of the short batch included, and the callback was handed them.
C6_ShortBatchStops ==
    OffsetBatching
    => \A i \in 1..Len(trace) :
          (IsBatchQuery(trace[i]) /\ trace[i].ok
              /\ Len(trace[i].page.records) < batch_size)
          => /\ \A j \in (i+1)..Len(trace) : ~IsSessionCall(trace[j])
             /\ pc = "idle" =>
                   /\ outcome = "returned"
                   /\ Ids(returned) = Ids(Records(PagesServed))
                   /\ batch_callback =>
                         /\ Len(trace) = i + 1
                         /\ IsCallback(trace[i+1])
                         /\ Ids(trace[i+1].page.records) = Ids(trace[i].page.records)

\* The first of at least two expected batches came short, with a record in it.
C6_Witness ==
    /\ Finished("query_in_batches") /\ batch_callback
    /\ total_batches >= 2
    /\ Len(BatchQueries) = 1
    /\ BatchQueries[1].ok
    /\ Len(BatchQueries[1].page.records) = 1
    /\ batch_size = 2
    /\ Len(returned) = 1

\* The count query returned, reporting no record
CountedZero ==
    /\ OffsetBatching
    /\ SessionCalls # <<>>
    /\ SessionCalls[1].kind = "query" /\ SessionCalls[1].ok
    /\ SessionCalls[1].page.totalSize = 0

\* C7: when the count query reports 0, query_in_batches returns an empty list,
\* having made no session call but the count query and no callback call.
C7_EmptyCount ==
    CountedZero
    => /\ pc = "idle"
       /\ outcome = "returned"
       /\ returned = <<>>
       /\ Len(SessionCalls) = 1
       /\ Callbacks = <<>>

\* A count of 0, with a callback passed and a batch_size of 0.
C7_Witness == CountedZero /\ batch_callback /\ batch_size = 0 /\ outcome = "returned"

\* C8: when the query of batch k fails, query_in_batches raises that failure and
\* returns nothing, the records of batches 1..k-1 included, though their
\* callbacks were called; the failed query is its last session call.
C8_BatchFailureAborts ==
    (Finished("query_in_batches")
        /\ \E k \in 1..Len(BatchQueries) : ~BatchQueries[k].ok)
    => LET k == Len(BatchQueries)
       IN /\ outcome = "raised"
          /\ exc = "SalesforceError"
          /\ returned = <<>>
          /\ \A j \in 1..(k-1) : BatchQueries[j].ok
          /\ ~BatchQueries[k].ok
          /\ IsBatchQuery(trace[Len(trace)])
          /\ batch_callback => Len(Callbacks) = k - 1

\* The second batch failed after a first batch of two records went to the callback.
C8_Witness ==
    /\ Finished("query_in_batches") /\ batch_callback
    /\ Len(BatchQueries) = 2
    /\ ~BatchQueries[2].ok
    /\ Len(BatchQueries[1].page.records) = 2
    /\ Len(Callbacks) = 1
    /\ all_records # <<>>

\* C9: query_data with paginate false makes one session call, query_all with
\* the caller's query, and returns the records of its page, as many and in the
\* same order.
C9_FullPull ==
    (Finished("query_data") /\ ~paginate)
    => /\ Len(SessionCalls) <= 1
       /\ \A k \in 1..Len(SessionCalls) :
             SessionCalls[k].kind = "query_all" /\ SessionCalls[k].arg = soql_query
       /\ outcome = "returned" =>
             /\ Len(SessionCalls) = 1
             /\ Len(returned) = Len(SessionCalls[1].page.records)
             /\ Ids(returned) = Ids(SessionCalls[1].page.records)

\* A full pull returned a page of three records, not all with attributes.
C9_Witness ==
    /\ Finished("query_data") /\ ~paginate /\ outcome = "returned"
    /\ Len(returned) = MaxRecs
    /\ \E i \in 1..Len(result.records) : ~HasAttributes(result.records[i])

\* kw, given in upper case, occurs in s at 0-based index i, in any case
OccursAt(s, kw, i) ==
    i + Len(kw) <= Len(s) /\ Upper(SubSeq(s, i + 1, i + Len(kw))) = kw

Occurs(s, kw) == \E i \in 0..Len(s) : OccursAt(s, kw, i)

\* The index of the earliest occurrence in s of any of the keywords, or Len(s)
Earliest(s, keywords) ==
    CHOOSE i \in 0..Len(s) :
        /\ i = Len(s) \/ \E k \in 1..Len(keywords) : OccursAt(s, keywords[k], i)
        /\ \A j \in 0..(i-1) : \A k \in 1..Len(keywords) : ~OccursAt(s, keywords[k], j)

\* The text of s from its from keyword up to, not including, the earliest
\* order by, limit, offset, group by or having after it
FromClause(s) ==
    LET tail == SliceFrom(s, Earliest(s, <<"FROM">>))
    IN SliceTo(tail, Earliest(tail, Clauses))

\* The count query query_count or query_in_batches is to send has been sent
CountQuerySent ==
    /\ op \in {"query_count", "query_in_batches"}
    /\ SessionCalls # <<>>
    /\ SessionCalls[1].kind = "query"

\* C10: for a select query with a from keyword, the count query sent is
\* `select count() ` (in either case) followed by the query's text from its
\* from keyword up to, not including, the earliest order by, limit, offset,
\* group by or having, in any case, and so holds none of them; for "select id
\* from Account order by name limit 10" it is "select count() from Account ".
C10_CountRewrite ==
    (CountQuerySent /\ Occurs(soql_query, "SELECT") /\ Occurs(soql_query, "FROM"))
    => LET sent == SessionCalls[1].arg
       IN /\ Upper(SliceTo(sent, 15)) = Upper("select count() ")
          /\ SliceFrom(sent, 15) = FromClause(soql_query)
          /\ \A k \in 1..Len(Clauses) : ~Occurs(sent, Clauses[k])
          /\ soql_query = "select id from Account order by name limit 10"
                => SliceFrom(sent, 15) = "from Account "

\* The connect calls of the call in progress
IsConnect(e) == e.kind = "connect"
Connects == SelectSeq(trace, IsConnect)

\* C11: the session is created once per connector. Once a connect has
\* succeeded the cached session never changes, no later call to query_data,
\* query_count or query_in_batches calls connect again, and every query,
\* query_all and query_more call is made on that one session.
C11_LazySessionReuse ==
    /\ [](/\ sf \in {NoSession, Session}
          /\ \A k \in 1..Len(SessionCalls) : SessionCalls[k].session = Session
          /\ Len(Connects) <= 1
          /\ \A k \in 1..Len(Connects) : Connects[k].session = NoSession)
    /\ [][sf # NoSession =>
            /\ sf' = sf
            /\ (trace' # trace /\ trace' # <<>>) => ~IsConnect(trace'[Len(trace')])]_vars

\* A later call that made two session calls on the cached session without
\* connecting.
C11_Witness ==
    /\ Finished("query_in_batches") /\ outcome = "returned"
    /\ Connects = <<>>
    /\ Len(SessionCalls) >= 2
    /\ \A k \in 1..Len(SessionCalls) : SessionCalls[k].session = Session
    /\ sf = Session

\* query_data's first session call, query_all of the full pull or the first
\* page's query of the cursor pagination, failed and the call has ended
FirstCallFailed ==
    /\ Finished("query_data")
    /\ SessionCalls # <<>>
    /\ SessionCalls[1].kind \in {"query_all", "query"}
    /\ ~SessionCalls[1].ok

\* C12 as stated: when the query_all call of a full pull or the first query
\* call of a cursor pagination fails, query_data returns no records and raises
\* an ExtractionError wrapping the session's failure.
C12_WrappedFailure ==
    FirstCallFailed
    => /\ outcome = "raised"
       /\ returned = <<>>
       /\ exc = "ExtractionError"

\* C12, amended: when the query_all call of a full pull or the first query
\* call of a cursor pagination fails, query_data returns no records, makes no
\* further session call and no callback call, and the exception that reaches
\* the caller is the session's own, re-raised as it was caught.
C12_FailurePropagates ==
    FirstCallFailed
    => /\ outcome = "raised"
       /\ returned = <<>>
       /\ exc = "SalesforceError"
       /\ Len(SessionCalls) = 1
       /\ Callbacks = <<>>

\* The first page's query of a cursor pagination with a callback failed.
C12_Witness ==
    /\ FirstCallFailed /\ paginate /\ batch_callback
    /\ outcome = "raised"
    /\ exc = "SalesforceError"

\* The call in progress got past connect
Connected == \A k \in 1..Len(Connects) : Connects[k].ok

\* C13: query_data with paginate false makes one query_all call and nothing
\* else: no query, no query_more, and no call of a callback it was given.
\* query_data with paginate true makes a query call first and then only
\* query_more calls, each one after a page that came with done false and for
\* that page's nextRecordsUrl, and it does not return on a served page with
\* done false.
C13_StrategyDispatch ==
    op = "query_data"
    => IF ~paginate
       THEN /\ Len(SessionCalls) <= 1
            /\ \A k \in 1..Len(SessionCalls) : SessionCalls[k].kind = "query_all"
            /\ Callbacks = <<>>
            /\ (Finished("query_data") /\ Connected) => Len(SessionCalls) = 1
       ELSE /\ \A k \in 1..Len(SessionCalls) :
                  IF k = 1
                  THEN SessionCalls[k].kind = "query"
                  ELSE /\ SessionCalls[k].kind = "query_more"
                       /\ SessionCalls[k - 1].ok
                       /\ ~SessionCalls[k - 1].page.done
                       /\ SessionCalls[k].arg = SessionCalls[k - 1].page.nextRecordsUrl
            /\ (Finished("query_data") /\ Connected)
                  => /\ SessionCalls # <<>>
                     /\ LET last == SessionCalls[Len(SessionCalls)]
                        IN last.ok => (outcome = "returned" /\ last.page.done)

\* A full pull that was given a callback returned records.
C13_Witness ==
    /\ Finished("query_data") /\ ~paginate /\ batch_callback
    /\ outcome = "returned"
    /\ Len(returned) > 0
    /\ Len(SessionCalls) = 1

\* C14: query_count on a query with no from in it, in any letter case, raises
\* ValueError("Invalid SOQL query format"), the connector's malformed-query
\* error, without a call to the session; query_in_batches on such a query
\* raises the same from its count step, before any batch query.
C14_NoFromRejected ==
    (/\ op \in {"query_count", "query_in_batches"}
     /\ ~Occurs(soql_query, "FROM")
     /\ Connected)
    => /\ SessionCalls = <<>>
       /\ Callbacks = <<>>
       /\ pc = "idle" => (outcome = "raised" /\ exc = "ValueError" /\ returned = <<>>)
       /\ pc # "idle" => pc \in {"count", "batches_count"}

\* query_in_batches was called with a select that names no object, after a
\* connect that succeeded, and has raised.
C14_Witness ==
    /\ Finished("query_in_batches")
    /\ Contains(Upper(soql_query), "SELECT")
    /\ ~Occurs(soql_query, "FROM")
    /\ Connected
    /\ exc = "ValueError"

\* C15: every batch query of query_in_batches is the caller's query with
\* " LIMIT <batch_size> OFFSET <offset>" placed in it: when the query has an
\* order by, in any letter case, between the text before the first order by
\* and the order by clause onward; otherwise at its end.
C15_BatchRewrite ==
    OffsetBatching
    => \A k \in 1..Len(BatchQueries) :
          LET limit_offset == " LIMIT " \o Str(batch_size)
                              \o " OFFSET " \o Str((k - 1) * batch_size)
              order_by == Earliest(soql_query, <<"ORDER BY">>)
          IN BatchQueries[k].arg =
                IF Occurs(soql_query, "ORDER BY")
                THEN SliceTo(soql_query, order_by) \o limit_offset \o " "
                     \o SliceFrom(soql_query, order_by)
                ELSE soql_query \o limit_offset

\* The cursor pagination is between its entry and its return
CursorRunning == CursorPagination /\ pc \in {"query", "page_loop", "query_more"}

\* The loop of the cursor pagination, pass by pass: batch_num counts the
\* passes, each pass takes the one page fetched last, and at most one
\* query_more follows it.
CursorLoopShape ==
    CursorPagination
    => /\ Len(PagesServed) = (IF pc = "page_loop" THEN batch_num + 1 ELSE batch_num)
       /\ Ids(all_records) = Ids(Records(SubSeq(PagesServed, 1, batch_num)))
       /\ batch_callback => Len(Callbacks) = batch_num
       /\ SessionCalls # <<>> => Len(SessionCalls) - 1 <= batch_num
       /\ pc = "query_more" => ~PagesServed[batch_num].page.done
       /\ (Finished("query_data") /\ PagesServed # <<>>)
             => /\ outcome = "returned"
                /\ LET last == SessionCalls[Len(SessionCalls)]
                   IN \/ last.ok /\ last.page.done
                      \/ ~last.ok /\ last.kind = "query_more"

\* C16: a cursor pagination that got its first page ends in one of two ways,
\* having taken a page with done true or after a query_more that failed, and
\* returns in both; each pass of its loop takes exactly one page and makes at
\* most one query_more call; and as the session sooner or later serves a page
\* with done true or fails a query_more, every cursor pagination that was
\* started comes to its end.
C16_CursorTerminates ==
    /\ []CursorLoopShape
    /\ CursorRunning ~> Finished("query_data")

\* The loop ran three passes and ended on a page with done true.
C16_Witness ==
    /\ Finished("query_data") /\ paginate
    /\ outcome = "returned"
    /\ batch_num = MaxPages
    /\ Len(SessionCalls) = MaxPages
    /\ SessionCalls[MaxPages].ok /\ SessionCalls[MaxPages].page.done

C18_BatchCallbackNumbering ==
    (OffsetBatching /\ batch_callback)
    => /\ Len(Callbacks) = (IF pc = "batch_loop" THEN Len(PagesServed) - 1
                                                ELSE Len(PagesServed))
       /\ Len(Callbacks) <= total_batches
       /\ \A k \in 1..Len(Callbacks) :
             /\ Callbacks[k].num = k
             /\ Callbacks[k].total = total_batches
             /\ Callbacks[k].total = CeilDiv(total_size, batch_size)

\* Two batches were served and the callback called twice, the total not a
\* multiple of the batch size.
C18_Witness ==
    /\ Finished("query_in_batches") /\ batch_callback
    /\ outcome = "returned"
    /\ Len(Callbacks) = 2
    /\ batch_size > 0
    /\ total_size % batch_size # 0
    /\ Callbacks[2].total = 2

\* A session call that fetches records: not the count query of query_in_batches
IsRecordCall(e) == IF op = "query_in_batches" THEN IsBatchQuery(e) ELSE IsSessionCall(e)

\* C19: when a cursor pagination or query_in_batches is given a callback,
\* what it returns is the batch_records of the callback calls one after the
\* other in the order of the calls, and the callback for a batch is called
\* before the session is asked for the next one: every served batch is
\* followed at once by its callback call, and every callback call follows the
\* serving of its batch.
C19_StreamedBatchesAgree ==
    ((CursorPagination \/ OffsetBatching) /\ batch_callback)
    => /\ (pc = "idle" /\ outcome = "returned") => returned = Records(Callbacks)
       /\ \A i \in 1..Len(trace) :
             /\ (IsRecordCall(trace[i]) /\ trace[i].ok /\ i < Len(trace))
                   => /\ IsCallback(trace[i + 1])
                      /\ trace[i + 1].page.records = StripAttributes(trace[i].page.records)
             /\ IsCallback(trace[i])
                   => i > 1 /\ IsRecordCall(trace[i - 1]) /\ trace[i - 1].ok

\* Both strategies' case is the same; here query_in_batches returned two
\* batches with records in them, each handed to the callback.
C19_Witness ==
    /\ Finished("query_in_batches") /\ batch_callback
    /\ outcome = "returned"
    /\ Len(Callbacks) = 2
    /\ Len(Callbacks[1].page.records) > 0
    /\ Len(Callbacks[2].page.records) > 0
    /\ returned = Callbacks[1].page.records \o Callbacks[2].page.records

\* The call in progress began with a connect that failed
ConnectFailed == Connects # <<>> /\ ~Connects[1].ok

\* C20: when connect fails in a call to query_data, query_count or
\* query_in_batches on a connector without a session, the call raises the
\* connect's exception, makes no session call and no callback call, and
\* leaves the connector without a session; and every call made while there is
\* no session, the one after a failed connect among them, begins with a
\* connect.
C20_FailedConnect ==
    /\ [](ConnectFailed
            => /\ sf = NoSession
               /\ pc = "idle"
               /\ outcome = "raised"
               /\ exc = "SalesforceAuthenticationFailed"
               /\ returned = <<>>
               /\ Len(trace) = 1)
    /\ [][(pc = "idle" /\ sf = NoSession)
            => /\ trace' # <<>>
               /\ IsConnect(trace'[1])
               /\ trace'[1].session = NoSession
               /\ sf' = (IF trace'[1].ok THEN Session ELSE NoSession)]_vars

\* query_in_batches was called on a connector without a session and its
\* connect failed.
C20_Witness ==
    /\ Finished("query_in_batches")
    /\ ConnectFailed
    /\ sf = NoSession
    /\ outcome = "raised"

====
